---- MODULE Spec2Model ----
(***************************************************************************)
(* hack_vm_translator: a translator from the Hack VM language to Hack      *)
(* assembly.  The module models                                            *)
(*   - src/src/vm.rs    the line parser (Segment, Command, parse_source),  *)
(*   - src/src/asm.rs   the code generator (generate_code and the          *)
(*                      per-command generators),                           *)
(*   - src/src/main.rs  the pipeline parse -> extract errors -> generate   *)
(*                      -> write,                                          *)
(* and the target machine (assembler symbol resolution and the Hack CPU)   *)
(* on which the emitted code is executed.                                  *)
(*                                                                         *)
(* Text is modelled as a sequence of one-character strings, so that        *)
(* format!-style concatenation is real concatenation and two different     *)
(* (scope, label) pairs that format to the same text are the same symbol.  *)
(***************************************************************************)
EXTENDS Integers, Sequences, FiniteSets, TLC

VARIABLES
    pc,               \* main.rs: position of main ("parse", "extract", "generate", "finish", "write", "done", "failed")
    sources,          \* main.rs: Vec<(String, String)>, the loaded translation units
    parse_results,    \* main.rs: Vec<Result<SourceCommand, String>>
    ri,               \* extract_and_report_errors: number of parse results consumed
    error_count,      \* extract_and_report_errors: error_count
    parsed_commands,  \* extract_and_report_errors: parsed_commands (then generate_code's `commands`)
    gi,               \* generate_code: number of commands handed to the map closure
    scope,            \* generate_code: scope: Vec<String>
    should_bootstrap, \* generate_code: should_bootstrap
    instructions,     \* generate_code: the collected Vec<String>, one element per command
    result,           \* what main ends with: "none", Ok or Err of the failing stage
    written,          \* the output file: <<>> (not written) or <<the instruction list>>
    test,             \* the program and start state given to the target machine
    rom,              \* target machine: the assembled instruction memory
    ram,              \* target machine: data memory, address -> word (0 where absent)
    A,                \* target machine: address register
    D,                \* target machine: data register
    PC,               \* target machine: program counter (0-based)
    mstate            \* target machine: "idle", "run" or "halt"

vars == <<pc, sources, parse_results, ri, error_count, parsed_commands, gi, scope,
          should_bootstrap, instructions, result, written, test, rom, ram, A, D, PC, mstate>>

translatorVars == <<pc, sources, parse_results, ri, error_count, parsed_commands, gi, scope,
                    should_bootstrap, instructions, result, written>>

machineVars == <<test, rom, ram, A, D, PC, mstate>>

(***************************************************************************)
(* Text                                                                    *)
(***************************************************************************)

\* The 16-bit word of u16 indices and of the target machine.
Word == 0..65535

WordMod == 65536

DigitChars == <<"0", "1", "2", "3", "4", "5", "6", "7", "8", "9">>

DigitValue(c) == CHOOSE d \in 0..9 : DigitChars[d + 1] = c

IsDigit(c) == \E d \in 0..9 : DigitChars[d + 1] = c

\* format!("{n}") of an unsigned integer: its decimal digits.
RECURSIVE Digits(_)
Digits(n) ==
    IF n < 10 THEN <<DigitChars[n + 1]>>
    ELSE Digits(n \div 10) \o <<DigitChars[(n % 10) + 1]>>

\* The value of a string of decimal digits.
RECURSIVE DigitsValue(_)
DigitsValue(s) ==
    IF s = <<>> THEN 0
    ELSE 10 * DigitsValue(SubSeq(s, 1, Len(s) - 1)) + DigitValue(s[Len(s)])

AllDigits(s) == Len(s) > 0 /\ \A k \in 1..Len(s) : IsDigit(s[k])

HasPrefix(s, p) == Len(s) >= Len(p) /\ SubSeq(s, 1, Len(p)) = p

DropPrefix(s, p) == SubSeq(s, Len(p) + 1, Len(s))

\* Tokens joined by single blanks: a line of source text.
RECURSIVE JoinBlank(_)
JoinBlank(toks) ==
    IF toks = <<>> THEN <<>>
    ELSE IF Len(toks) = 1 THEN toks[1]
    ELSE toks[1] \o <<" ">> \o JoinBlank(Tail(toks))

RECURSIVE Flatten(_)
Flatten(ss) == IF ss = <<>> THEN <<>> ELSE ss[1] \o Flatten(Tail(ss))

Range(s) == {s[k] : k \in 1..Len(s)}

Ok(v) == [ok |-> TRUE, val |-> v]

Err(e) == [ok |-> FALSE, err |-> e]

(***************************************************************************)
(* Fixed pieces of text                                                    *)
(***************************************************************************)

kwPush == <<"p", "u", "s", "h">>

kwPop == <<"p", "o", "p">>

kwLabel == <<"l", "a", "b", "e", "l">>

kwIfGoto == <<"i", "f", "-", "g", "o", "t", "o">>

kwGoto == <<"g", "o", "t", "o">>

kwFunction == <<"f", "u", "n", "c", "t", "i", "o", "n">>

kwCall == <<"c", "a", "l", "l">>

kwAdd == <<"a", "d", "d">>

kwSub == <<"s", "u", "b">>

kwNeg == <<"n", "e", "g">>

kwEq == <<"e", "q">>

kwLt == <<"l", "t">>

kwGt == <<"g", "t">>

kwAnd == <<"a", "n", "d">>

kwOr == <<"o", "r">>

kwNot == <<"n", "o", "t">>

kwReturn == <<"r", "e", "t", "u", "r", "n">>

sArgument == <<"a", "r", "g", "u", "m", "e", "n", "t">>

sConstant == <<"c", "o", "n", "s", "t", "a", "n", "t">>

sLocal == <<"l", "o", "c", "a", "l">>

sPointer == <<"p", "o", "i", "n", "t", "e", "r">>

sStatic == <<"s", "t", "a", "t", "i", "c">>

sTemp == <<"t", "e", "m", "p">>

sThat == <<"t", "h", "a", "t">>

sThis == <<"t", "h", "i", "s">>

symSP == <<"S", "P">>

symLCL == <<"L", "C", "L">>

symARG == <<"A", "R", "G">>

symTHIS == <<"T", "H", "I", "S">>

symTHAT == <<"T", "H", "A", "T">>

symFrame == <<"f", "r", "a", "m", "e">>

symRetaddr == <<"r", "e", "t", "a", "d", "d", "r">>

txtCompTrue == <<"C", "O", "M", "P", "_", "T", "R", "U", "E", "_">>

txtCompEnd == <<"C", "O", "M", "P", "_", "E", "N", "D", "_">>

txtRet == <<"$", "r", "e", "t", ".">>

txtDollar == <<"$">>

txtDot == <<".">>

txtSlashes == <<"/", "/">>

txtSysInit == <<"S", "y", "s", ".", "i", "n", "i", "t">>

txtBootstrap == <<"B", "o", "o", "t", "s", "t", "r", "a", "p">>

(***************************************************************************)
(* src/src/vm.rs: the parser                                               *)
(***************************************************************************)

\* str::trim, for the blank as the only whitespace character.
RECURSIVE TrimStart(_)
TrimStart(s) == IF s # <<>> /\ s[1] = " " THEN TrimStart(Tail(s)) ELSE s

RECURSIVE TrimEnd(_)
TrimEnd(s) ==
    IF s # <<>> /\ s[Len(s)] = " " THEN TrimEnd(SubSeq(s, 1, Len(s) - 1)) ELSE s

Trim(s) == TrimEnd(TrimStart(s))

\* str::find: the first position (1-based) where p occurs in s, or 0.
Find(s, p) ==
    LET hits == {k \in 1..(Len(s) - Len(p) + 1) : SubSeq(s, k, k + Len(p) - 1) = p}
    IN  IF hits = {} THEN 0 ELSE CHOOSE k \in hits : \A j \in hits : k <= j

\* str::split_whitespace: the maximal blank-free pieces, in order.
RECURSIVE SplitWhitespace(_)
SplitWhitespace(s) ==
    LET t == TrimStart(s)
        e == Find(t, <<" ">>)
    IN  IF t = <<>> THEN <<>>
        ELSE IF e = 0 THEN <<t>>
        ELSE <<SubSeq(t, 1, e - 1)>> \o SplitWhitespace(SubSeq(t, e, Len(t)))

\* str::parse::<u16>: an optional '+', then decimal digits of a value below 2^16.
ParseU16(s) ==
    LET d == IF s # <<>> /\ s[1] = "+" THEN Tail(s) ELSE s
    IN  IF AllDigits(d) /\ DigitsValue(d) < WordMod
        THEN Ok(DigitsValue(d))
        ELSE Err([msg |-> "Error parsing index: ", arg |-> s])

\* impl FromStr for Segment
SegmentFromStr(s) ==
    CASE s = sArgument -> Ok("Argument")
      [] s = sConstant -> Ok("Constant")
      [] s = sLocal    -> Ok("Local")
      [] s = sPointer  -> Ok("Pointer")
      [] s = sStatic   -> Ok("Static")
      [] s = sTemp     -> Ok("Temp")
      [] s = sThat     -> Ok("That")
      [] s = sThis     -> Ok("This")
      [] OTHER         -> Err([msg |-> "Unknown segment name: ", arg |-> s])

parse_label_and_n(s) ==
    LET parts == SplitWhitespace(s)
    IN  IF Len(parts) = 2
        THEN LET index == ParseU16(parts[2])
             IN  IF ~index.ok THEN index
                 ELSE Ok([name |-> parts[1], n |-> index.val])
        ELSE Err([msg |-> "expected format '<string> <int>'", arg |-> s])

parse_stack_arguments(s) ==
    LET r == parse_label_and_n(s)
    IN  IF ~r.ok THEN r
        ELSE LET segment == SegmentFromStr(r.val.name)
             IN  IF ~segment.ok THEN segment
                 ELSE Ok([segment |-> segment.val, index |-> r.val.n])

parse_push(s) ==
    LET r == parse_stack_arguments(s)
    IN  IF ~r.ok THEN r
        ELSE Ok([tag |-> "Push", segment |-> r.val.segment, index |-> r.val.index])

parse_pop(s) ==
    LET r == parse_stack_arguments(s)
    IN  IF ~r.ok THEN r
        ELSE Ok([tag |-> "Pop", segment |-> r.val.segment, index |-> r.val.index])

parse_label_name(s) ==
    LET t == Trim(s)
    IN  IF t = <<>> THEN Err([msg |-> "Label must have a name", arg |-> s])
        ELSE Ok(t)

parse_label(s) ==
    LET r == parse_label_name(s)
    IN  IF r.ok THEN Ok([tag |-> "Label", name |-> r.val]) ELSE r

parse_if_goto(s) ==
    LET r == parse_label_name(s)
    IN  IF r.ok THEN Ok([tag |-> "IfGoto", name |-> r.val]) ELSE r

parse_goto(s) ==
    LET r == parse_label_name(s)
    IN  IF r.ok THEN Ok([tag |-> "Goto", name |-> r.val]) ELSE r

parse_function(s) ==
    LET r == parse_label_and_n(s)
    IN  IF r.ok THEN Ok([tag |-> "Function", name |-> r.val.name, nvars |-> r.val.n]) ELSE r

\* The Call variant that asm.rs matches on (Command::Call {name, nargs}); its
\* parser is not in vm.rs as given and is taken to mirror parse_function.
parse_call(s) ==
    LET r == parse_label_and_n(s)
    IN  IF r.ok THEN Ok([tag |-> "Call", name |-> r.val.name, nargs |-> r.val.n]) ELSE r

\* Command::from_str
CommandFromStr(line) ==
    CASE HasPrefix(line, kwPush)     -> parse_push(Trim(DropPrefix(line, kwPush)))
      [] HasPrefix(line, kwPop)      -> parse_pop(Trim(DropPrefix(line, kwPop)))
      [] HasPrefix(line, kwLabel)    -> parse_label(Trim(DropPrefix(line, kwLabel)))
      [] HasPrefix(line, kwIfGoto)   -> parse_if_goto(DropPrefix(line, kwIfGoto))
      [] HasPrefix(line, kwGoto)     -> parse_goto(DropPrefix(line, kwGoto))
      [] HasPrefix(line, kwFunction) -> parse_function(DropPrefix(line, kwFunction))
      [] HasPrefix(line, kwCall)     -> parse_call(DropPrefix(line, kwCall))
      [] line = kwAdd    -> Ok([tag |-> "Add"])
      [] line = kwSub    -> Ok([tag |-> "Sub"])
      [] line = kwNeg    -> Ok([tag |-> "Neg"])
      [] line = kwEq     -> Ok([tag |-> "Eq"])
      [] line = kwLt     -> Ok([tag |-> "Lt"])
      [] line = kwGt     -> Ok([tag |-> "Gt"])
      [] line = kwAnd    -> Ok([tag |-> "And"])
      [] line = kwOr     -> Ok([tag |-> "Or"])
      [] line = kwNot    -> Ok([tag |-> "Not"])
      [] line = kwReturn -> Ok([tag |-> "Return"])
      [] OTHER -> Err([msg |-> "Parser not implemented for ", arg |-> line])

\* strip_comments: the trimmed text before the first "//"; <<>> stands for None.
strip_comments(line) ==
    LET i == Find(line, txtSlashes)
    IN  Trim(IF i = 0 THEN line ELSE SubSeq(line, 1, i - 1))

parse_source_command(file_base, i, source) ==
    LET c == CommandFromStr(source)
    IN  IF c.ok
        THEN Ok([file_base |-> file_base, line |-> i, command |-> c.val, source |-> source])
        ELSE Err([msg |-> "Parse error at line ", file_base |-> file_base, line |-> i,
                  source |-> source, cause |-> c.err])

\* parse_source: lines().enumerate().filter_map(...): the k-th line of the unit
\* (0-based k) is dropped when blank or comment-only and parsed otherwise.
RECURSIVE ParseLinesFrom(_, _, _)
ParseLinesFrom(file_base, lines, k) ==
    IF k > Len(lines) THEN <<>>
    ELSE LET s == strip_comments(lines[k])
         IN  (IF s = <<>> THEN <<>> ELSE <<parse_source_command(file_base, k - 1, s)>>)
             \o ParseLinesFrom(file_base, lines, k + 1)

parse_source(file_base, lines) == ParseLinesFrom(file_base, lines, 1)

(***************************************************************************)
(* src/src/asm.rs: the code generator.  A generated String is modelled as  *)
(* its sequence of lines: "@sym", "dest=comp;jump", "(sym)", "// text".    *)
(***************************************************************************)

AInstr(sym) == [t |-> "A", s |-> sym]

CInstr(dest, comp, jump) == [t |-> "C", s |-> <<dest, comp, jump>>]

LabelDecl(sym) == [t |-> "L", s |-> sym]

CommentLine(text) == [t |-> "//", s |-> text]

\* Option<&String>: <<>> is None, <<x>> is Some(x).
UnwrapOr(opt, default) == IF opt = <<>> THEN default ELSE opt[1]

\* u16 addition of the generator (index + 3, index + 5, nargs + 5), as the
\* release build computes it; no input drawn here reaches the wrap, where a
\* debug build would abort instead.
AddU16(a, b) == (a + b) % WordMod

pop_d == <<AInstr(symSP), CInstr("AM", "M-1", ""), CInstr("D", "M", "")>>

push_d ==
    <<AInstr(symSP), CInstr("A", "M", ""), CInstr("M", "D", ""),
      AInstr(symSP), CInstr("M", "M+1", "")>>

push_symbol(symbol) == <<AInstr(symbol), CInstr("D", "M", "")>> \o push_d

comment(sc) ==
    CommentLine(sc.file_base \o <<"[">> \o Digits(sc.line) \o <<"]", ":", " ">> \o sc.source)

generate_comparison(sc, comp) ==
    LET file == sc.file_base
        line == Digits(sc.line)
        true_label == txtCompTrue \o file \o txtDot \o line
        end_label  == txtCompEnd \o file \o txtDot \o line
    IN  Ok(pop_d
           \o <<AInstr(symSP), CInstr("AM", "M-1", ""), CInstr("D", "M-D", ""),
                AInstr(true_label), CInstr("", "D", comp),
                AInstr(Digits(0)), CInstr("D", "A", ""),
                AInstr(end_label), CInstr("", "0", "JMP"),
                LabelDecl(true_label),
                AInstr(Digits(1)), CInstr("D", "-A", ""),
                LabelDecl(end_label)>>
           \o push_d)

generate_eq(sc) == generate_comparison(sc, "JEQ")

\* Mutant of generate_gt: the jump of lt.
generate_gt_mirrored(sc) == generate_comparison(sc, "JLT")

generate_gt(sc) == generate_comparison(sc, "JGT")

generate_lt(sc) == generate_comparison(sc, "JLT")

generate_unary(op) == Ok(pop_d \o <<CInstr("D", op, "")>> \o push_d)

generate_binary_operation(op) ==
    Ok(pop_d \o <<AInstr(symSP), CInstr("AM", "M-1", ""), CInstr("D", op, "")>> \o push_d)

generate_and == generate_binary_operation("D&M")

generate_or == generate_binary_operation("D|M")

generate_add == generate_binary_operation("D+M")

\* Mutant of generate_sub: the operands swapped, right minus left.
generate_sub_swapped == generate_binary_operation("D-M")

generate_sub == generate_binary_operation("M-D")

generate_neg == generate_unary("-D")

generate_not == generate_unary("!D")

push_constant(value) == Ok(<<AInstr(Digits(value)), CInstr("D", "A", "")>> \o push_d)

\* Mutant of push_from_segment: the index is loaded but not added to the base.
push_from_segment_no_index(segment_name, index) ==
    Ok(<<AInstr(Digits(index)), CInstr("D", "A", ""),
         AInstr(segment_name), CInstr("A", "M", ""), CInstr("D", "M", "")>>
       \o push_d)

push_from_segment(segment_name, index) ==
    Ok(<<AInstr(Digits(index)), CInstr("D", "A", ""),
         AInstr(segment_name), CInstr("A", "D+M", ""), CInstr("D", "M", "")>>
       \o push_d)

push_from_variable(variable) == Ok(<<AInstr(variable), CInstr("D", "M", "")>> \o push_d)

push_from_address(index) == push_from_variable(Digits(index))

generate_push(sc, segment, index) ==
    LET file == sc.file_base
    IN  CASE segment = "Argument" -> push_from_segment(symARG, index)
          [] segment = "Constant" -> push_constant(index)
          [] segment = "Local"    -> push_from_segment(symLCL, index)
          [] segment = "Pointer"  -> push_from_address(AddU16(index, 3))
          [] segment = "Static"   -> push_from_variable(file \o txtDot \o Digits(index))
          [] segment = "Temp"     -> push_from_address(AddU16(index, 5))
          [] segment = "That"     -> push_from_segment(symTHAT, index)
          [] segment = "This"     -> push_from_segment(symTHIS, index)

pop_to_variable(variable) == Ok(pop_d \o <<AInstr(variable), CInstr("M", "D", "")>>)

pop_to_address(address) == pop_to_variable(Digits(address))

\* Mutant of pop_to_segment: the target address is parked in the scratch word 13.
pop_to_segment_scratch(segment_name, index) ==
    Ok(<<AInstr(segment_name), CInstr("D", "M", ""),
         AInstr(Digits(index)), CInstr("D", "D+A", ""),
         AInstr(Digits(13)), CInstr("M", "D", "")>>
       \o pop_d
       \o <<AInstr(Digits(13)), CInstr("A", "M", ""), CInstr("M", "D", "")>>)

pop_to_segment(segment_name, index) ==
    Ok(<<AInstr(segment_name), CInstr("D", "M", ""),
         AInstr(Digits(index)), CInstr("D", "D+A", ""),
         AInstr(symSP), CInstr("AM", "M-1", ""),
         CInstr("D", "D+M", ""), CInstr("A", "D-M", ""), CInstr("M", "D-A", "")>>)

generate_pop(sc, segment, index) ==
    CASE segment = "Argument" -> pop_to_segment(symARG, index)
      [] segment = "Local"    -> pop_to_segment(symLCL, index)
      [] segment = "Pointer"  -> pop_to_address(AddU16(index, 3))
      [] segment = "Static"   -> pop_to_variable(sc.file_base \o txtDot \o Digits(index))
      [] segment = "Temp"     -> pop_to_address(AddU16(index, 5))
      [] segment = "That"     -> pop_to_segment(symTHAT, index)
      [] segment = "This"     -> pop_to_segment(symTHIS, index)
      [] OTHER -> Err([msg |-> "Unable to address segment for pop: ", segment |-> segment])

generate_if_goto(sc, label, scopeTop) ==
    LET label_scope == UnwrapOr(scopeTop, sc.file_base)
    IN  Ok(pop_d \o <<AInstr(label_scope \o txtDollar \o label), CInstr("", "D", "JNE")>>)

generate_goto(sc, label, scopeTop) ==
    LET label_scope == UnwrapOr(scopeTop, sc.file_base)
    IN  Ok(<<AInstr(label_scope \o txtDollar \o label), CInstr("", "0", "JMP")>>)

generate_label(sc, label, scopeTop) ==
    LET label_scope == UnwrapOr(scopeTop, sc.file_base)
    IN  Ok(<<LabelDecl(label_scope \o txtDollar \o label)>>)

\* Mutant of generate_call: ARG is set one word short, to SP - nargs - 4.
generate_call_short_frame(sc, name, nargs, scopeTop) ==
    LET arg_offset == AddU16(nargs, 4)
        label_scope == UnwrapOr(scopeTop, sc.file_base)
        return_label == label_scope \o txtRet \o Digits(sc.line)
    IN  Ok(<<AInstr(return_label), CInstr("D", "A", "")>>
           \o push_d
           \o push_symbol(symLCL)
           \o push_symbol(symARG)
           \o push_symbol(symTHIS)
           \o push_symbol(symTHAT)
           \o <<AInstr(symSP), CInstr("D", "M", ""),
                AInstr(Digits(arg_offset)), CInstr("D", "D-A", ""),
                AInstr(symARG), CInstr("M", "D", "")>>
           \o <<AInstr(symSP), CInstr("D", "M", ""), AInstr(symLCL), CInstr("M", "D", "")>>
           \o <<AInstr(name), CInstr("", "0", "JMP")>>
           \o <<LabelDecl(return_label)>>)

generate_call(sc, name, nargs, scopeTop) ==
    LET arg_offset == AddU16(nargs, 5)
        label_scope == UnwrapOr(scopeTop, sc.file_base)
        return_label == label_scope \o txtRet \o Digits(sc.line)
    IN  Ok(<<AInstr(return_label), CInstr("D", "A", "")>>
           \o push_d
           \o push_symbol(symLCL)
           \o push_symbol(symARG)
           \o push_symbol(symTHIS)
           \o push_symbol(symTHAT)
           \o <<AInstr(symSP), CInstr("D", "M", ""),
                AInstr(Digits(arg_offset)), CInstr("D", "D-A", ""),
                AInstr(symARG), CInstr("M", "D", "")>>
           \o <<AInstr(symSP), CInstr("D", "M", ""), AInstr(symLCL), CInstr("M", "D", "")>>
           \o <<AInstr(name), CInstr("", "0", "JMP")>>
           \o <<LabelDecl(return_label)>>)

RECURSIVE Repeat(_, _)
Repeat(ls, n) == IF n = 0 THEN <<>> ELSE ls \o Repeat(ls, n - 1)

generate_function(name, nvars) ==
    Ok(<<LabelDecl(name)>> \o Repeat(push_constant(0).val, nvars))

generate_return ==
    Ok(<<AInstr(symLCL), CInstr("D", "M", ""), AInstr(symFrame), CInstr("M", "D", "")>>
       \o <<AInstr(symFrame), CInstr("D", "M", ""), AInstr(Digits(5)), CInstr("A", "D-A", ""),
            CInstr("D", "M", ""), AInstr(symRetaddr), CInstr("M", "D", "")>>
       \o pop_d
       \o <<AInstr(symARG), CInstr("A", "M", ""), CInstr("M", "D", "")>>
       \o <<AInstr(symARG), CInstr("D", "M+1", ""), AInstr(symSP), CInstr("M", "D", "")>>
       \o <<AInstr(symFrame), CInstr("AM", "M-1", ""), CInstr("D", "M", ""),
            AInstr(symTHAT), CInstr("M", "D", ""),
            AInstr(symFrame), CInstr("AM", "M-1", ""), CInstr("D", "M", ""),
            AInstr(symTHIS), CInstr("M", "D", ""),
            AInstr(symFrame), CInstr("AM", "M-1", ""), CInstr("D", "M", ""),
            AInstr(symARG), CInstr("M", "D", ""),
            AInstr(symFrame), CInstr("AM", "M-1", ""), CInstr("D", "M", ""),
            AInstr(symLCL), CInstr("M", "D", "")>>
       \o <<AInstr(symRetaddr), CInstr("A", "M", ""), CInstr("", "0", "JMP")>>)

generate_code_for_command(sc, scopeTop) ==
    LET c == sc.command
        code ==
            CASE c.tag = "Add"      -> generate_add
              [] c.tag = "And"      -> generate_and
              [] c.tag = "Eq"       -> generate_eq(sc)
              [] c.tag = "Gt"       -> generate_gt(sc)
              [] c.tag = "Lt"       -> generate_lt(sc)
              [] c.tag = "Neg"      -> generate_neg
              [] c.tag = "Not"      -> generate_not
              [] c.tag = "Or"       -> generate_or
              [] c.tag = "Pop"      -> generate_pop(sc, c.segment, c.index)
              [] c.tag = "Push"     -> generate_push(sc, c.segment, c.index)
              [] c.tag = "Sub"      -> generate_sub
              [] c.tag = "Goto"     -> generate_goto(sc, c.name, scopeTop)
              [] c.tag = "IfGoto"   -> generate_if_goto(sc, c.name, scopeTop)
              [] c.tag = "Label"    -> generate_label(sc, c.name, scopeTop)
              [] c.tag = "Call"     -> generate_call(sc, c.name, c.nargs, scopeTop)
              [] c.tag = "Function" -> generate_function(c.name, c.nvars)
              [] c.tag = "Return"   -> generate_return
    IN  IF code.ok THEN Ok(<<comment(sc)>> \o code.val) ELSE code

\* SourceCommand::bootstrap(command) is not in vm.rs as given: the synthetic
\* command of the bootstrap call, belonging to no source line.
BootstrapLine == 0

SourceCommandBootstrap(command) ==
    [file_base |-> txtBootstrap, line |-> BootstrapLine, command |-> command,
     source |-> txtBootstrap]

bootstrap ==
    LET command == [tag |-> "Call", name |-> txtBootstrap, nargs |-> 0]
        sc == SourceCommandBootstrap(command)
    IN  <<AInstr(Digits(256)), CInstr("D", "A", ""), AInstr(symSP), CInstr("M", "D", ""),
          AInstr(symLCL), CInstr("M", "-1", ""),
          AInstr(Digits(2)), CInstr("D", "-A", ""), AInstr(symARG), CInstr("M", "D", ""),
          AInstr(Digits(3)), CInstr("D", "-A", ""), AInstr(symTHIS), CInstr("M", "D", ""),
          AInstr(Digits(4)), CInstr("D", "-A", ""), AInstr(symTHAT), CInstr("M", "D", "")>>
        \o generate_call(sc, txtSysInit, 0, <<txtBootstrap>>).val

\* Option<&String> of scope.last()
ScopeLast(sc_stack) == IF sc_stack = <<>> THEN <<>> ELSE <<sc_stack[Len(sc_stack)]>>

\* Mutant of MapClosure: should_bootstrap follows the latest Function command only.
MapClosure_latest_only(st, source_command) ==
    LET c == source_command.command
        isf == c.tag = "Function"
        sb == IF isf THEN c.name = txtSysInit ELSE st.should_bootstrap
        sk == IF isf THEN Append(st.scope, c.name) ELSE st.scope
    IN  [scope |-> sk, should_bootstrap |-> sb,
         res |-> generate_code_for_command(source_command, ScopeLast(sk))]

\* Mutant of MapClosure: a Return command pops the scope stack.
MapClosure_pop_on_return(st, source_command) ==
    LET c == source_command.command
        isf == c.tag = "Function"
        sb == IF isf THEN st.should_bootstrap \/ c.name = txtSysInit ELSE st.should_bootstrap
        sk == IF isf THEN Append(st.scope, c.name)
              ELSE IF c.tag = "Return" /\ st.scope # <<>>
                   THEN SubSeq(st.scope, 1, Len(st.scope) - 1)
                   ELSE st.scope
    IN  [scope |-> sk, should_bootstrap |-> sb,
         res |-> generate_code_for_command(source_command, ScopeLast(sk))]

\* The closure of generate_code's map (lines 11-18) on one command: the scope
\* stack and should_bootstrap after it, and the command's Result.
MapClosure(st, source_command) ==
    LET c == source_command.command
        isf == c.tag = "Function"
        sb == IF isf THEN st.should_bootstrap \/ c.name = txtSysInit ELSE st.should_bootstrap
        sk == IF isf THEN Append(st.scope, c.name) ELSE st.scope
    IN  [scope |-> sk, should_bootstrap |-> sb,
         res |-> generate_code_for_command(source_command, ScopeLast(sk))]

(***************************************************************************)
(* Inputs of the translator: translation units drawn from a pool of lines  *)
(***************************************************************************)

\* Lines per translation unit.
MaxLines == 2

nameF == <<"F">>

nameG == <<"G">>

nameL == <<"L">>

unitA == <<"A">>

unitB == <<"B">>

LinePool ==
    { JoinBlank(<<kwFunction, nameF, Digits(0)>>),
      JoinBlank(<<kwFunction, txtSysInit, Digits(1)>>),
      JoinBlank(<<kwCall, nameG, Digits(0)>>),
      JoinBlank(<<kwLabel, nameL>>),
      JoinBlank(<<kwGoto, nameL>>),
      JoinBlank(<<kwIfGoto, nameL>>),
      kwEq,
      kwReturn,
      JoinBlank(<<kwPush, sStatic, Digits(0)>>),
      JoinBlank(<<kwPop, sConstant, Digits(0)>>),
      JoinBlank(<<kwPop, <<"l", "o", "c">>, Digits(0)>>),
      JoinBlank(<<txtSlashes, nameL>>) }

UnitTexts == UNION {[1..n -> LinePool] : n \in 0..MaxLines}

\* The second unit: texts whose lines meet those of the first unit at the same
\* line numbers, with and without a Function command of their own.
SecondUnitTexts ==
    { <<>>,
      <<JoinBlank(<<txtSlashes, nameL>>), JoinBlank(<<kwCall, nameG, Digits(0)>>)>>,
      <<JoinBlank(<<kwLabel, nameL>>), kwEq>>,
      <<JoinBlank(<<kwIfGoto, nameL>>), JoinBlank(<<kwLabel, nameL>>)>>,
      <<JoinBlank(<<kwPush, sStatic, Digits(0)>>), JoinBlank(<<kwGoto, nameL>>)>>,
      <<JoinBlank(<<kwFunction, nameG, Digits(0)>>), JoinBlank(<<kwLabel, nameL>>)>>,
      <<JoinBlank(<<kwFunction, txtSysInit, Digits(0)>>), JoinBlank(<<kwCall, nameG, Digits(0)>>)>>,
      <<JoinBlank(<<kwPop, sStatic, Digits(0)>>), JoinBlank(<<kwPop, sConstant, Digits(1)>>)>> }

SourceSets ==
    { <<[name |-> unitA, lines |-> a], [name |-> unitB, lines |-> b]>> :
        a \in UnitTexts, b \in SecondUnitTexts }

(***************************************************************************)
(* src/src/main.rs: the pipeline                                           *)
(***************************************************************************)

\* parse_sources: flat_map of parse_source over the units, in unit order.
RECURSIVE parse_sources(_)
parse_sources(srcs) ==
    IF srcs = <<>> THEN <<>>
    ELSE parse_source(srcs[1].name, srcs[1].lines) \o parse_sources(Tail(srcs))

MachineIdle ==
    /\ test = [name |-> "none"]
    /\ rom = <<>>
    /\ ram = <<>>
    /\ A = 0
    /\ D = 0
    /\ PC = 0
    /\ mstate = "idle"

Init ==
    /\ sources \in SourceSets
    /\ pc = "parse"
    /\ parse_results = <<>>
    /\ ri = 0
    /\ error_count = 0
    /\ parsed_commands = <<>>
    /\ gi = 0
    /\ scope = <<>>
    /\ should_bootstrap = FALSE
    /\ instructions = <<>>
    /\ result = [ok |-> TRUE, val |-> "none"]
    /\ written = <<>>
    /\ MachineIdle

\* main line 95: let ast = parse_sources(&sources)
ParseSources ==
    /\ pc = "parse"
    /\ parse_results' = parse_sources(sources)
    /\ pc' = "extract"
    /\ UNCHANGED <<sources, ri, error_count, parsed_commands, gi, scope, should_bootstrap,
                   instructions, result, written>>
    /\ UNCHANGED machineVars

\* extract_and_report_errors: one turn of `for result in parse_results`.
ExtractStep ==
    /\ pc = "extract"
    /\ ri < Len(parse_results)
    /\ LET r == parse_results[ri + 1]
       IN  IF r.ok
           THEN /\ parsed_commands' = Append(parsed_commands, r.val)
                /\ error_count' = error_count
           ELSE /\ error_count' = error_count + 1
                /\ parsed_commands' = parsed_commands
    /\ ri' = ri + 1
    /\ UNCHANGED <<pc, sources, parse_results, gi, scope, should_bootstrap, instructions,
                   result, written>>
    /\ UNCHANGED machineVars

\* Mutant of ExtractEnd: the parse errors are reported but do not end the run.
ExtractEnd_lenient ==
    /\ pc = "extract"
    /\ ri = Len(parse_results)
    /\ result' = result
    /\ pc' = "generate"
    /\ UNCHANGED <<sources, parse_results, ri, error_count, parsed_commands, gi, scope,
                   should_bootstrap, instructions, written>>
    /\ UNCHANGED machineVars

\* extract_and_report_errors: after the loop; main's `?` ends the run on Err.
ExtractEnd ==
    /\ pc = "extract"
    /\ ri = Len(parse_results)
    /\ IF error_count > 0
       THEN /\ result' = Err([msg |-> "Parse errors found: ", count |-> error_count])
            /\ pc' = "failed"
       ELSE /\ result' = result
            /\ pc' = "generate"
    /\ UNCHANGED <<sources, parse_results, ri, error_count, parsed_commands, gi, scope,
                   should_bootstrap, instructions, written>>
    /\ UNCHANGED machineVars

\* generate_code: the map closure on the next command; collect::<Result<..>>
\* keeps an Ok value and ends at the first Err, dropping what was collected.
GenStep ==
    /\ pc = "generate"
    /\ gi < Len(parsed_commands)
    /\ LET m == MapClosure([scope |-> scope, should_bootstrap |-> should_bootstrap],
                           parsed_commands[gi + 1])
       IN  /\ scope' = m.scope
           /\ should_bootstrap' = m.should_bootstrap
           /\ IF m.res.ok
              THEN /\ instructions' = Append(instructions, m.res.val)
                   /\ result' = result
                   /\ pc' = pc
              ELSE /\ instructions' = <<>>
                   /\ result' = m.res
                   /\ pc' = "failed"
    /\ gi' = gi + 1
    /\ UNCHANGED <<sources, parse_results, ri, error_count, parsed_commands, written>>
    /\ UNCHANGED machineVars

\* generate_code lines 20-24: the bootstrap goes first; Ok(instructions).
GenFinish ==
    /\ pc = "generate"
    /\ gi = Len(parsed_commands)
    /\ instructions' = IF should_bootstrap THEN <<bootstrap>> \o instructions ELSE instructions
    /\ result' = Ok("generated")
    /\ pc' = "write"
    /\ UNCHANGED <<sources, parse_results, ri, error_count, parsed_commands, gi, scope,
                   should_bootstrap, written>>
    /\ UNCHANGED machineVars

\* main line 108: fs::write(target_file_name, asm.join("\n"))
WriteOutput ==
    /\ pc = "write"
    /\ written' = <<Flatten(instructions)>>
    /\ pc' = "done"
    /\ UNCHANGED <<sources, parse_results, ri, error_count, parsed_commands, gi, scope,
                   should_bootstrap, instructions, result>>
    /\ UNCHANGED machineVars

Next ==
    \/ ParseSources
    \/ ExtractStep
    \/ ExtractEnd
    \/ GenStep
    \/ GenFinish
    \/ WriteOutput

Spec == Init /\ [][Next]_vars

(***************************************************************************)
(* The target machine: a 16-bit machine with an address register A, a data *)
(* register D, the memory word M = RAM[A] and a program counter with jumps *)
(* conditioned on the sign of the computed value.  Memory is addressed by  *)
(* the 16-bit value of A.                                                  *)
(***************************************************************************)

HalfWord == WordMod \div 2

\* The signed reading of a 16-bit word.
Signed(x) == IF x >= HalfWord THEN x - WordMod ELSE x

Wrap(x) == x % WordMod

RECURSIVE BitAnd(_, _, _)
BitAnd(x, y, bits) ==
    IF bits = 0 THEN 0
    ELSE (IF x % 2 = 1 /\ y % 2 = 1 THEN 1 ELSE 0) + 2 * BitAnd(x \div 2, y \div 2, bits - 1)

RECURSIVE BitOr(_, _, _)
BitOr(x, y, bits) ==
    IF bits = 0 THEN 0
    ELSE (IF x % 2 = 1 \/ y % 2 = 1 THEN 1 ELSE 0) + 2 * BitOr(x \div 2, y \div 2, bits - 1)

Read(mem, a) == IF a \in DOMAIN mem THEN mem[a] ELSE 0

Write(mem, a, v) == [x \in (DOMAIN mem) \cup {a} |-> IF x = a THEN v ELSE mem[x]]

\* The value a C-instruction computes from A, D and M.
Compute(comp, a, d, m) ==
    CASE comp = "0"   -> 0
      [] comp = "-1"  -> WordMod - 1
      [] comp = "D"   -> d
      [] comp = "A"   -> a
      [] comp = "M"   -> m
      [] comp = "!D"  -> WordMod - 1 - d
      [] comp = "-D"  -> Wrap(WordMod - d)
      [] comp = "-A"  -> Wrap(WordMod - a)
      [] comp = "D+A" -> Wrap(d + a)
      [] comp = "D+M" -> Wrap(d + m)
      [] comp = "D-A" -> Wrap(d - a)
      [] comp = "D-M" -> Wrap(d - m)
      [] comp = "M-D" -> Wrap(m - d)
      [] comp = "M-1" -> Wrap(m - 1)
      [] comp = "M+1" -> Wrap(m + 1)
      [] comp = "D&M" -> BitAnd(d, m, 16)
      [] comp = "D|M" -> BitOr(d, m, 16)

\* Whether a jump is taken on the computed value.
Jumps(jump, v) ==
    CASE jump = ""    -> FALSE
      [] jump = "JMP" -> TRUE
      [] jump = "JEQ" -> v = 0
      [] jump = "JNE" -> v # 0
      [] jump = "JGT" -> Signed(v) > 0
      [] jump = "JLT" -> Signed(v) < 0

\* The destinations of a C-instruction: "M", "D", "A", "AM".
Writes(dest, reg) ==
    CASE reg = "A" -> dest \in {"A", "AM"}
      [] reg = "D" -> dest = "D"
      [] reg = "M" -> dest \in {"M", "AM"}

(***************************************************************************)
(* The assembler: labels name instruction addresses, the five pointer      *)
(* registers have fixed addresses, decimal operands are constants, and any *)
(* other symbol is a variable, allocated from address 16 in order of first *)
(* use.                                                                    *)
(***************************************************************************)

IsInstr(l) == l.t \in {"A", "C"}

\* The number of instructions among the first k lines.
InstrCount(lines, k) == Len(SelectSeq(SubSeq(lines, 1, k), IsInstr))

LabelsOf(lines) == {lines[k].s : k \in {j \in 1..Len(lines) : lines[j].t = "L"}}

\* The address of a label: the number of instructions before its first declaration.
LabelAddress(lines, sym) ==
    LET decl == CHOOSE k \in 1..Len(lines) :
                    /\ lines[k].t = "L" /\ lines[k].s = sym
                    /\ \A j \in 1..(k - 1) : ~(lines[j].t = "L" /\ lines[j].s = sym)
    IN  InstrCount(lines, decl)

Predefined == {symSP, symLCL, symARG, symTHIS, symTHAT}

PredefinedAddress(sym) ==
    CASE sym = symSP   -> 0
      [] sym = symLCL  -> 1
      [] sym = symARG  -> 2
      [] sym = symTHIS -> 3
      [] sym = symTHAT -> 4

IsVariable(labels, sym) ==
    ~AllDigits(sym) /\ sym \notin Predefined /\ sym \notin labels

VariableBase == 16

\* A variable's address: the base plus the number of variables first used before it.
\* `uses` are the symbols of the A-instructions that name variables, in program order.
VariableAddress(uses, sym) ==
    LET first == CHOOSE k \in 1..Len(uses) :
                     uses[k] = sym /\ \A j \in 1..(k - 1) : uses[j] # sym
    IN  VariableBase + Cardinality({uses[j] : j \in 1..(first - 1)})

Resolve(lines, labels, variables, sym) ==
    IF AllDigits(sym) THEN DigitsValue(sym)
    ELSE IF sym \in Predefined THEN PredefinedAddress(sym)
    ELSE IF sym \in labels THEN LabelAddress(lines, sym)
    ELSE VariableAddress(variables, sym)

Encode(lines, labels, variables, l) ==
    IF l.t = "A" THEN [t |-> "A", v |-> Resolve(lines, labels, variables, l.s)]
    ELSE [t |-> "C", dest |-> l.s[1], comp |-> l.s[2], jump |-> l.s[3]]

Assemble(lines) ==
    LET labels == LabelsOf(lines)
        code == SelectSeq(lines, IsInstr)
        uses == SelectSeq(code, LAMBDA l : l.t = "A" /\ IsVariable(labels, l.s))
        variables == [n \in 1..Len(uses) |-> uses[n].s]
    IN  [n \in 1..Len(code) |-> Encode(lines, labels, variables, code[n])]

(***************************************************************************)
(* Programs run on the target machine, each with its start state           *)
(***************************************************************************)

\* Constants pushed are 0..MaxConst, and as many counted down from the
\* largest constant an A-instruction holds (2^15 - 1).
MaxConst == 2

\* Segment indices are 0..MaxIndex.
MaxIndex == 2

\* A call passes 0..MaxArgs arguments to a function of 0..MaxVars locals.
MaxArgs == 2

MaxVars == 2

\* The start of the stack, as the bootstrap sets it.
StackBase == 256

Consts == (0..MaxConst) \cup {HalfWord - 1 - k : k \in 0..MaxConst}

DynamicSegments == {"Argument", "Local", "This", "That"}

SegmentText(seg) ==
    CASE seg = "Argument" -> sArgument
      [] seg = "Local"    -> sLocal
      [] seg = "This"     -> sThis
      [] seg = "That"     -> sThat
      [] seg = "Constant" -> sConstant
      [] seg = "Pointer"  -> sPointer

\* The address of the pointer register of a dynamic segment.
SegmentRegister(seg) ==
    CASE seg = "Local"    -> 1
      [] seg = "Argument" -> 2
      [] seg = "This"     -> 3
      [] seg = "That"     -> 4

PushText(seg, i) == JoinBlank(<<kwPush, SegmentText(seg), Digits(i)>>)

PopText(seg, i) == JoinBlank(<<kwPop, SegmentText(seg), Digits(i)>>)

\* The four pointer registers and SP, as a memory.
Registers(sp, lcl, arg, this, that) ==
    (0 :> sp) @@ (1 :> lcl) @@ (2 :> arg) @@ (3 :> this) @@ (4 :> that)

\* push constant a; push constant b; add | sub | eq | gt | lt
BinaryTests ==
    { [name |-> "binary",
       p |-> [op |-> op, a |-> a, b |-> b, sp |-> StackBase],
       text |-> <<PushText("Constant", a), PushText("Constant", b), op>>,
       ram0 |-> Registers(StackBase, 300, 400, 3000, 3010)] :
        op \in {kwAdd, kwSub, kwEq, kwGt, kwLt}, a \in Consts, b \in Consts }

\* Words met in memory: small ones, the sign boundary, the largest.
Words == {0, 1, 7, HalfWord - 1, HalfWord, WordMod - 1}

\* Base pointers: the registers' own addresses, ordinary addresses, the stack
\* itself and addresses that wrap with the index.
Bases == {0, 1, 300, StackBase, WordMod - 1}

\* push S i; pop S i, from the states in which SP is not inside the five
\* register words 0..4 (a stack there would be the registers themselves); the
\* pointer of S is anywhere.
PushPopTests ==
    { [name |-> "pushpop",
       p |-> [seg |-> seg, index |-> i, sp |-> sp],
       text |-> <<PushText(seg, i), PopText(seg, i)>>,
       ram0 |-> ((SegmentRegister(seg) :> base) @@ Registers(sp, 300, 400, 3000, 3010)
                 @@ (Wrap(base + i) :> x) @@ (sp :> 9))] :
        seg \in DynamicSegments, i \in 0..MaxIndex, base \in Bases,
        sp \in {5, StackBase, StackBase + 1, WordMod - 1}, x \in {0, 7, WordMod - 1} }

\* pop S i, from every kind of state: SP and the base pointer anywhere.
PopTests ==
    { [name |-> "pop",
       p |-> [seg |-> seg, index |-> i, sp |-> sp],
       text |-> <<PopText(seg, i)>>,
       ram0 |-> ((SegmentRegister(seg) :> base) @@ Registers(sp, 300, 400, 3000, 3010)
                 @@ (Wrap(sp - 1) :> v) @@ (Wrap(base + i) :> 9))] :
        seg \in DynamicSegments, i \in 0..MaxIndex, base \in Bases,
        sp \in {0, 1, 2, StackBase, WordMod - 1}, v \in Words }

\* Bodies of the called function: each leaves one value on top of the stack.
\* The second overwrites THIS and THAT, the third reads its first argument,
\* the fourth its first local.
Bodies ==
    { <<PushText("Constant", 7)>>,
      <<PushText("Constant", 5), JoinBlank(<<kwPop, sPointer, Digits(0)>>),
        PushText("Constant", 6), JoinBlank(<<kwPop, sPointer, Digits(1)>>),
        PushText("Constant", 8)>>,
      <<PushText("Argument", 0), PushText("Constant", 1), kwAdd>>,
      <<PushText("Local", 0), PushText("Constant", 3), kwAdd>> }

\* The n words on top of the stack before the call: 10, 11, ...
Arguments(sp, n) == [a \in {sp - k : k \in 1..n} |-> 10 + (a - (sp - n))]

\* function F m; body; return; call F n.  The call site is the last command,
\* so its return label is the end of the program; execution starts at the call.
CallTests ==
    { [name |-> "call",
       p |-> [nargs |-> n, nvars |-> m, body |-> body, sp |-> StackBase + n + extra,
              lcl |-> regs[1], arg |-> regs[2], this |-> regs[3], that |-> regs[4]],
       text |-> <<JoinBlank(<<kwFunction, nameF, Digits(m)>>)>> \o body
                \o <<kwReturn, JoinBlank(<<kwCall, nameF, Digits(n)>>)>>,
       ram0 |-> (Registers(StackBase + n + extra, regs[1], regs[2], regs[3], regs[4])
                 @@ Arguments(StackBase + n + extra, n))] :
        n \in 0..MaxArgs, m \in 0..MaxVars, body \in Bodies, extra \in {0, 3},
        regs \in {<<300, 400, 3000, 3010>>, <<StackBase, StackBase, 0, WordMod - 1>>} }

\* gt | lt on two words already on the stack: x second from top, y on top, any
\* 16-bit words (constants pushed reach only the non-negative half).
CompareTests ==
    { [name |-> "compare",
       p |-> [op |-> op, x |-> x, y |-> y, sp |-> StackBase + 2],
       text |-> <<op>>,
       ram0 |-> (Registers(StackBase + 2, 300, 400, 3000, 3010)
                 @@ (StackBase :> x) @@ ((StackBase + 1) :> y))] :
        op \in {kwGt, kwLt}, x \in Words, y \in Words }

Tests == BinaryTests \cup PushPopTests \cup PopTests \cup CallTests \cup CompareTests

\* The address of the first instruction of the last output element.
LastElementStart(out) == Len(SelectSeq(Flatten(SubSeq(out, 1, Len(out) - 1)), IsInstr))

\* The translator is given the test's text as its one translation unit.
InitRun ==
    /\ test \in Tests
    /\ sources = <<[name |-> unitA, lines |-> test.text]>>
    /\ pc = "parse"
    /\ parse_results = <<>>
    /\ ri = 0
    /\ error_count = 0
    /\ parsed_commands = <<>>
    /\ gi = 0
    /\ scope = <<>>
    /\ should_bootstrap = FALSE
    /\ instructions = <<>>
    /\ result = [ok |-> TRUE, val |-> "none"]
    /\ written = <<>>
    /\ rom = <<>>
    /\ ram = <<>>
    /\ A = 0
    /\ D = 0
    /\ PC = 0
    /\ mstate = "idle"

\* The written program is assembled and loaded; the machine is put in the
\* test's start state.
LoadProgram ==
    /\ mstate = "idle"
    /\ pc = "done"
    /\ rom' = Assemble(written[1])
    /\ PC' = IF test.name = "call" THEN LastElementStart(instructions) ELSE 0
    /\ ram' = test.ram0
    /\ mstate' = "run"
    /\ UNCHANGED <<test, A, D>>
    /\ UNCHANGED translatorVars

\* One instruction.
Step ==
    /\ mstate = "run"
    /\ PC < Len(rom)
    /\ LET ins == rom[PC + 1]
       IN  IF ins.t = "A"
           THEN /\ A' = ins.v
                /\ PC' = PC + 1
                /\ UNCHANGED <<D, ram>>
           ELSE LET v == Compute(ins.comp, A, D, Read(ram, A))
                IN  /\ A' = IF Writes(ins.dest, "A") THEN v ELSE A
                    /\ D' = IF Writes(ins.dest, "D") THEN v ELSE D
                    /\ ram' = IF Writes(ins.dest, "M") THEN Write(ram, A, v) ELSE ram
                    /\ PC' = IF Jumps(ins.jump, v) THEN A ELSE PC + 1
    /\ UNCHANGED <<test, rom, mstate>>
    /\ UNCHANGED translatorVars

\* The program counter has run off the end of the program.
Halt ==
    /\ mstate = "run"
    /\ PC >= Len(rom)
    /\ mstate' = "halt"
    /\ UNCHANGED <<test, rom, ram, A, D, PC>>
    /\ UNCHANGED translatorVars

NextRun ==
    \/ ParseSources
    \/ ExtractStep
    \/ ExtractEnd
    \/ GenStep
    \/ GenFinish
    \/ WriteOutput
    \/ LoadProgram
    \/ Step
    \/ Halt

SpecRun == InitRun /\ [][NextRun]_vars

(***************************************************************************)
(* Properties of the emitted code, run on the target machine               *)
(***************************************************************************)

Halted(name) == mstate = "halt" /\ test.name = name

\* A word of the start state.
Before(a) == Read(test.ram0, a)

\* A word of the current state.
Now(a) == Read(ram, a)

TrueWord == WordMod - 1

Holds(op, a, b) ==
    CASE op = kwEq -> a = b
      [] op = kwGt -> a > b
      [] op = kwLt -> a < b

\* C2: after push constant a; push constant b and a comparison, the two values
\* are replaced by all-ones when the comparison holds of (a, b) and by zero
\* when it does not, and SP is one below its value before the comparison.
C2_ComparisonSign ==
    (Halted("binary") /\ test.p.op \in {kwEq, kwGt, kwLt}) =>
        /\ Now(0) = test.p.sp + 1
        /\ Now(test.p.sp) = IF Holds(test.p.op, test.p.a, test.p.b) THEN TrueWord ELSE 0

C2_Witness ==
    /\ Halted("binary")
    /\ test.p.op = kwGt
    /\ test.p.a = HalfWord - 1
    /\ test.p.b = 0
    /\ Now(test.p.sp) = TrueWord

\* C6: after push constant a; push constant b; add the stack holds one value
\* more than before, a+b; with sub it is a-b, left minus right, modulo 2^16.
C6_ArithmeticOperandOrder ==
    (Halted("binary") /\ test.p.op \in {kwAdd, kwSub}) =>
        /\ Now(0) = test.p.sp + 1
        /\ Now(test.p.sp) = IF test.p.op = kwAdd THEN Wrap(test.p.a + test.p.b)
                            ELSE Wrap(test.p.a - test.p.b)

C6_Witness ==
    /\ Halted("binary")
    /\ test.p.op = kwSub
    /\ test.p.a = 1
    /\ test.p.b = 2
    /\ Now(test.p.sp) = WordMod - 1
    /\ Now(0) = test.p.sp + 1

\* The address a dynamic-segment access of the test resolves to in its start state.
SlotAddress == Wrap(Before(SegmentRegister(test.p.seg)) + test.p.index)

\* C7: push S i followed by pop S i leaves the word at base(S)+i, SP and the
\* four segment pointers as they were before the push (SP being outside the
\* register words 0..4 before the push).
C7_PushPopRoundTrip ==
    Halted("pushpop") =>
        /\ Now(SlotAddress) = Before(SlotAddress)
        /\ Now(0) = Before(0)
        /\ \A r \in 1..4 : Now(r) = Before(r)

\* The push has acted (the word above the stack now holds the slot's value,
\* which it did not before) and the slot's address wrapped around.
C7_Witness ==
    /\ Halted("pushpop")
    /\ test.p.index > 0
    /\ SlotAddress < test.p.index
    /\ Before(test.p.sp) # Before(SlotAddress)
    /\ Now(test.p.sp) = Before(SlotAddress)
    /\ Now(SlotAddress) = Before(SlotAddress)

\* The value on top of the stack in the start state.
TopValue == Before(Wrap(Before(0) - 1))

PopEffect ==
    /\ Now(SlotAddress) = TopValue
    /\ Now(0) = Wrap(Before(0) - 1)
    /\ \A a \in ((DOMAIN ram) \cup (DOMAIN test.ram0)) \ {0, SlotAddress} : Now(a) = Before(a)

\* C10 as stated: for all values of the base pointer, the popped value and SP,
\* pop S i stores the popped value at base(S)+i, decrements SP and changes no
\* other word.
C10_PopAllStates == Halted("pop") => PopEffect

\* C10: the same, provided the target address base(S)+i is not address 0, where
\* SP itself is kept, and SP is not 1, where the popped word would be SP itself.
C10_TwoRegisterPop ==
    (Halted("pop") /\ SlotAddress # 0 /\ Before(0) # 1) => PopEffect

\* The sum address + value wrapped, and the value arrived.
C10_Witness ==
    /\ Halted("pop")
    /\ SlotAddress # 0
    /\ Before(0) # 1
    /\ SlotAddress + TopValue >= WordMod
    /\ TopValue # Before(SlotAddress)
    /\ Now(SlotAddress) = TopValue

\* The result the body of the called function leaves, from the start state.
ExpectedResult ==
    LET b == test.p.body
    IN  CASE b = <<PushText("Constant", 7)>> -> 7
          [] b[1] = PushText("Constant", 5) -> 8
          [] b[1] = PushText("Argument", 0) ->
                Wrap((IF test.p.nargs > 0 THEN Before(test.p.sp - test.p.nargs) ELSE Len(rom)) + 1)
          [] b[1] = PushText("Local", 0) -> 3

\* C1: call F n with n values on the stack, function F m, a body leaving one
\* result, and return end at the return label of the call with the result
\* where the first argument sat (at the SP of before the call when n = 0), SP
\* right above it, and LCL, ARG, THIS, THAT as before the call.
C1_CallReturnRoundTrip ==
    Halted("call") =>
        /\ PC = Len(rom)
        /\ Now(test.p.sp - test.p.nargs) = ExpectedResult
        /\ Now(0) = test.p.sp - test.p.nargs + 1
        /\ Now(1) = test.p.lcl
        /\ Now(2) = test.p.arg
        /\ Now(3) = test.p.this
        /\ Now(4) = test.p.that

\* A call without arguments has returned: the result overwrote the word
\* that held the return address, and the function had changed THIS.
C1_Witness ==
    /\ Halted("call")
    /\ test.p.nargs = 0
    /\ test.p.nvars > 0
    /\ test.p.body[1] = PushText("Constant", 5)
    /\ PC = Len(rom)
    /\ Now(test.p.sp) = 8
    /\ Now(3) = test.p.this
    /\ test.p.this # 5

(***************************************************************************)
(* Properties of the translator                                            *)
(***************************************************************************)

\* generate_code has returned Ok: `instructions` is its value.
Generated == pc \in {"write", "done"}

\* With the bootstrap inserted, the element of command k is element k + 1.
ElementOffset == IF should_bootstrap THEN 1 ELSE 0

IsBootstrapElement(e) == should_bootstrap /\ e = 1

CommandOf(e) == parsed_commands[e - ElementOffset]

Elements == 1..Len(instructions)

CommandElements == {e \in Elements : ~IsBootstrapElement(e)}

LabelLines(e) == {l \in 1..Len(instructions[e]) : instructions[e][l].t = "L"}

\* The elements whose label declarations the translator makes up itself.
GeneratesLabels(e) ==
    \/ IsBootstrapElement(e)
    \/ /\ ~IsBootstrapElement(e)
       /\ CommandOf(e).command.tag \in {"Eq", "Gt", "Lt", "Call"}

\* C3: the label declarations the translator makes up (COMP_TRUE and COMP_END
\* of every comparison, the return label of every call and of the bootstrap)
\* are pairwise distinct in the output of any input program.
C3_GeneratedLabelsUnique ==
    Generated =>
        \A e1 \in Elements, e2 \in Elements :
            (GeneratesLabels(e1) /\ GeneratesLabels(e2)) =>
                \A l1 \in LabelLines(e1), l2 \in LabelLines(e2) :
                    (<<e1, l1>> # <<e2, l2>>) => instructions[e1][l1].s # instructions[e2][l2].s

FunctionCommands == {k \in 1..Len(parsed_commands) : parsed_commands[k].command.tag = "Function"}

DistinctFunctionNames ==
    \A j \in FunctionCommands, k \in FunctionCommands :
        j # k => parsed_commands[j].command.name # parsed_commands[k].command.name

IsLabelElement(e) == ~IsBootstrapElement(e) /\ CommandOf(e).command.tag = "Label"

IsStaticElement(e) ==
    /\ ~IsBootstrapElement(e)
    /\ CommandOf(e).command.tag \in {"Push", "Pop"}
    /\ CommandOf(e).command.segment = "Static"

\* The symbols an element addresses, SP apart.
AddressedSymbols(e) ==
    {instructions[e][l].s : l \in {x \in 1..Len(instructions[e]) : instructions[e][x].t = "A"}}
        \ {symSP}

DeclaredSymbols(e) == {instructions[e][l].s : l \in LabelLines(e)}

\* C4, the Static half: accesses to Static in different units never address
\* the same symbol.
StaticsOfUnitsApart ==
    Generated =>
        \A e1 \in CommandElements, e2 \in CommandElements :
            (/\ IsStaticElement(e1) /\ IsStaticElement(e2)
             /\ CommandOf(e1).file_base # CommandOf(e2).file_base)
                => AddressedSymbols(e1) \cap AddressedSymbols(e2) = {}

\* C4, the Label half: Labels declared in different units never declare the
\* same symbol.
LabelsOfUnitsApart ==
    Generated =>
        \A e1 \in CommandElements, e2 \in CommandElements :
            (/\ IsLabelElement(e1) /\ IsLabelElement(e2)
             /\ CommandOf(e1).file_base # CommandOf(e2).file_base)
                => DeclaredSymbols(e1) \cap DeclaredSymbols(e2) = {}

\* C4: for units of distinct names with distinct function names, translated
\* together, neither Static accesses nor declared Labels of different units
\* meet in one symbol, Labels before a unit's first Function included.
C4_UnitsNamespaced ==
    DistinctFunctionNames => (StaticsOfUnitsApart /\ LabelsOfUnitsApart)

DeclaresSysInit ==
    \E k \in FunctionCommands : parsed_commands[k].command.name = txtSysInit

BootstrapElements == {e \in Elements : instructions[e] = bootstrap}

\* C5: when generate_code succeeds, the output holds the bootstrap exactly
\* once, as its first element, if some Function command is named Sys.init,
\* and holds none otherwise; the other elements are those of the commands, in
\* the order of the commands.
C5_BootstrapEmission ==
    Generated =>
        /\ BootstrapElements = (IF DeclaresSysInit THEN {1} ELSE {})
        /\ Len(instructions) = Len(parsed_commands) + Cardinality(BootstrapElements)
        /\ \A k \in 1..Len(parsed_commands) :
               instructions[k + Cardinality(BootstrapElements)][1] = comment(parsed_commands[k])

\* Sys.init is declared twice, and not by the first command; one bootstrap leads.
C5_Witness ==
    /\ pc = "done"
    /\ Cardinality({k \in FunctionCommands : parsed_commands[k].command.name = txtSysInit}) = 2
    /\ parsed_commands[1].command.tag # "Function"
    /\ instructions[1] = bootstrap
    /\ BootstrapElements = {1}

ParseFailed == \E k \in 1..Len(parse_results) : ~parse_results[k].ok

\* C8: the output is written only after every line has parsed and every
\* command has generated code; after a parse failure code generation never
\* runs; a failing command makes generate_code return an error without any
\* instruction lines, and nothing is written.
C8_NoPartialOutput ==
    /\ written # <<>> =>
           /\ ~ParseFailed
           /\ ri = Len(parse_results)
           /\ Len(parsed_commands) = Len(parse_results)
           /\ gi = Len(parsed_commands)
           /\ result.ok
           /\ written = <<Flatten(instructions)>>
           /\ Len(instructions) = Len(parsed_commands) + ElementOffset
    /\ ParseFailed => (gi = 0 /\ instructions = <<>> /\ written = <<>>)
    /\ pc = "failed" =>
           /\ ~result.ok
           /\ DOMAIN result.err \in {{"msg", "segment"}, {"msg", "count"}}
           /\ instructions = <<>>
           /\ written = <<>>

\* Code generation failed after a Sys.init and another command were translated.
C8_Witness ==
    /\ pc = "failed"
    /\ gi >= 3
    /\ should_bootstrap
    /\ ~ParseFailed
    /\ ~result.ok
    /\ instructions = <<>>
    /\ written = <<>>

\* The commands that fail code generation: Constant as a pop target.
FailingCommands ==
    {k \in 1..Len(parsed_commands) :
        /\ parsed_commands[k].command.tag = "Pop"
        /\ parsed_commands[k].command.segment = "Constant"}

FirstFailing == CHOOSE k \in FailingCommands : \A j \in FailingCommands : k <= j

GenerationFailed == pc = "failed" /\ gi > 0

\* C9, first half: the error is that of the first failing command, and no
\* later command is processed.
FailsFast ==
    GenerationFailed =>
        /\ FailingCommands # {}
        /\ gi = FirstFailing
        /\ result = generate_code_for_command(parsed_commands[FirstFailing], ScopeLast(scope))

\* C9, second half: the error names the line number and the source text of
\* the failing command.
ErrorNamesCommand ==
    GenerationFailed =>
        /\ "line" \in DOMAIN result.err
        /\ "source" \in DOMAIN result.err
        /\ result.err.line = parsed_commands[gi].line
        /\ result.err.source = parsed_commands[gi].source

\* C9: a failing code generation returns the error of the first failing
\* command, processes no later command, and the error identifies the command
\* by its source line number and source text.
C9_FailFastDiagnostics == FailsFast /\ ErrorNamesCommand

(***************************************************************************)
(* Comparisons of words of the whole 16-bit range                          *)
(***************************************************************************)

\* The word the comparison left on the stack.
CompareResult == Now(StackBase)

\* The comparison follows the sign of the 16-bit difference x-y, as the machine
\* computes it (D=M-D, then D;JGT or D;JLT).
ComparesDifference ==
    Halted("compare") =>
        /\ Now(0) = StackBase + 1
        /\ CompareResult =
               IF Holds(test.p.op, Signed(Wrap(test.p.x - test.p.y)), 0) THEN TrueWord ELSE 0

\* C11: for all signed 16-bit x (second from top) and y (top), pairs whose
\* difference leaves the signed range included, gt leaves all-ones exactly
\* when x > y and lt exactly when x < y, and zero otherwise.
C11_ComparisonFullRange ==
    Halted("compare") =>
        CompareResult =
            IF Holds(test.p.op, Signed(test.p.x), Signed(test.p.y)) THEN TrueWord ELSE 0

\* gt of 32767 and -1: the difference is 32768, which reads as -32768.
C11_Overflow ==
    /\ Halted("compare")
    /\ test.p.op = kwGt
    /\ test.p.x = HalfWord - 1
    /\ test.p.y = WordMod - 1
    /\ CompareResult = 0

(***************************************************************************)
(* The scope handed to the generators                                      *)
(***************************************************************************)

IsFunctionCommand(sc) == sc.command.tag = "Function"

\* The names of the Function commands among the first k commands, in order.
FunctionNamesUpTo(k) ==
    LET fs == SelectSeq(SubSeq(parsed_commands, 1, k), IsFunctionCommand)
    IN  [n \in 1..Len(fs) |-> fs[n].command.name]

\* The name of the latest Function command at or before command k, if any.
LatestFunction(k) == ScopeLast(FunctionNamesUpTo(k))

\* The symbol of the label command k: the latest function, or without one the
\* unit of the command, then `$` and the label's name.
ScopedSymbol(k) ==
    UnwrapOr(LatestFunction(k), parsed_commands[k].file_base)
        \o txtDollar \o parsed_commands[k].command.name

IsJumpElement(e) == ~IsBootstrapElement(e) /\ CommandOf(e).command.tag \in {"Goto", "IfGoto"}

\* The scope stack holds one entry per Function command handed to the map so
\* far, in order: it only grows, and no Return takes an entry off.
ScopeStackGrows == scope = FunctionNamesUpTo(gi)

\* Label, Goto and IfGoto are emitted under the latest function of the whole
\* input, and under the unit's name only when no Function command precedes.
EmittedUnderLatestFunction ==
    Generated =>
        \A e \in CommandElements :
            /\ IsLabelElement(e) => DeclaredSymbols(e) = {ScopedSymbol(e - ElementOffset)}
            /\ IsJumpElement(e) => AddressedSymbols(e) = {ScopedSymbol(e - ElementOffset)}

\* A jump to L reached under the same scope as the Label L names its symbol.
JumpMeetsLabel ==
    Generated =>
        \A e1 \in CommandElements, e2 \in CommandElements :
            (/\ IsLabelElement(e1) /\ IsJumpElement(e2)
             /\ CommandOf(e1).command.name = CommandOf(e2).command.name
             /\ LatestFunction(e1 - ElementOffset) = LatestFunction(e2 - ElementOffset)
             /\ (LatestFunction(e1 - ElementOffset) = <<>>
                    => CommandOf(e1).file_base = CommandOf(e2).file_base))
                => AddressedSymbols(e2) = DeclaredSymbols(e1)

\* C12: the scope of each command is the latest Function command at or before
\* it in the whole input, across units, or absent; the scope stack only grows
\* and Return pops nothing; a Label, Goto or IfGoto L is emitted as F$L for
\* that function F, as unit$L only when no Function command precedes it, and
\* a jump to L under the scope of the Label L resolves to the Label's symbol.
C12_ScopeTracking == ScopeStackGrows /\ EmittedUnderLatestFunction /\ JumpMeetsLabel

\* Unit A is `function F 0`, `return`; the Label L that opens unit B is
\* declared as F$L, and the scope stack still holds F.
C12_Witness ==
    /\ pc = "done"
    /\ Len(parsed_commands) = 4
    /\ parsed_commands[1].command.tag = "Function"
    /\ parsed_commands[2].command.tag = "Return"
    /\ parsed_commands[3].command.tag = "Label"
    /\ parsed_commands[3].file_base = unitB
    /\ scope = <<nameF>>
    /\ DeclaredSymbols(3) = {nameF \o txtDollar \o nameL}

====
